---- MODULE Spec2Model ----
(***************************************************************************)
(* Model of civet's report aggregation, civet/report_functions/report.py.  *)
(*                                                                         *)
(* Python values are tagged so that values of different Python types can   *)
(* be told apart: a str is [str |-> s], a list is [list |-> <<...>>], a    *)
(* dict is [dict |-> f], a date is [date |-> <<y, m, d>>].  A call either  *)
(* returns, [returned |-> v], or raises, [raised |-> "KeyError"].          *)
(***************************************************************************)
EXTENDS Integers, Sequences, FiniteSets, TLC

VARIABLES
    metadata,                \* the metadata CSV: [fieldnames |-> set, rows |-> seq of rows]
    config,                  \* the config mapping
    pc,                      \* position of the running call
    query_summary_data,      \* outcome of make_query_summary_data
    fasta_summary,           \* outcome of make_fasta_summary_data
    total,                   \* get_top_10_str's argument total
    counter_dict,            \* get_top_10_str's argument counter_dict
    summary,                 \* outcome of get_top_10_str
    catchments,              \* the list of catchment names
    catchment_summary_data,  \* outcome of make_catchment_summary_data
    background_data,         \* outcome of get_background_data
    artifacts,               \* the per-catchment artifact files on disk
    data_for_report,         \* define_report_content: outcome and effects
    buf,                     \* what the renderer has put in the buffer
    trace_printed,           \* whether the renderer's traceback was printed
    output_file,             \* the report file, once written
    exception                \* the exception that left make_report, if any

vars == <<metadata, config, pc, query_summary_data, fasta_summary,
          total, counter_dict, summary, catchments, catchment_summary_data,
          background_data, artifacts, data_for_report, buf, trace_printed,
          output_file, exception>>

reportVars == <<artifacts, data_for_report, buf, trace_printed, output_file,
                exception>>

----------------------------------------------------------------------------
(* Python values and call outcomes *)

Str(s) == [str |-> s]
List(l) == [list |-> l]
Return(v) == [returned |-> v]
Raise(e) == [raised |-> e]
NotCalled == [notcalled |-> TRUE]

Returned(o) == "returned" \in DOMAIN o
Raised(o) == "raised" \in DOMAIN o

Range(s) == {s[i] : i \in 1..Len(s)}

----------------------------------------------------------------------------
(* csv.DictReader: every row is a mapping from the header's columns to     *)
(* strings; row[col] raises KeyError when col is not a column.             *)

HasCol(row, col) == col \in DOMAIN row

\* the loop `for col in cols: table_row[col] = row[col]`
TableRow_Defaulting(row, cols) ==
    Return([c \in Range(cols) |-> IF HasCol(row, c) THEN row[c] ELSE ""])

TableRow(row, cols) ==
    IF \E c \in Range(cols) : ~HasCol(row, c) THEN Raise("KeyError")
    ELSE Return([c \in Range(cols) |-> row[c]])

\* dict[key] = value
DictSet(d, k, v) == [x \in DOMAIN d \cup {k} |-> IF x = k THEN v ELSE d[x]]

----------------------------------------------------------------------------
(* make_query_summary_data, report.py 17-30 *)

IsQuery_AnyButFalse(row) == row["query_boolean"] # "False"

IsQuery(row) == row["query_boolean"] = "True"

RECURSIVE QuerySummaryLoop(_, _, _, _)
QuerySummaryLoop(rows, cols, i, acc) ==
    IF i > Len(rows) THEN Return(acc)
    ELSE LET row == rows[i] IN
         IF ~HasCol(row, "query_boolean") THEN Raise("KeyError")
         ELSE IF IsQuery(row)
              THEN LET table_row == TableRow(row, cols) IN
                   IF Raised(table_row) THEN table_row
                   ELSE QuerySummaryLoop(rows, cols, i + 1,
                                         Append(acc, table_row.returned))
              ELSE QuerySummaryLoop(rows, cols, i + 1, acc)

make_query_summary_data(md, cfg) ==
    QuerySummaryLoop(md.rows, cfg.table_content, 1, <<>>)

(* make_fasta_summary_data, report.py 32-49 *)

IsInputFasta(row) == row["source"] = "input_fasta"

QcPass_Inverted(row) == row["qc_status"] # "Pass"

QcPass(row) == row["qc_status"] = "Pass"

RECURSIVE FastaSummaryLoop(_, _, _, _, _)
FastaSummaryLoop(rows, cols, i, pass, fail) ==
    IF i > Len(rows) THEN Return([pass |-> pass, fail |-> fail])
    ELSE LET row == rows[i] IN
         IF ~HasCol(row, "source") THEN Raise("KeyError")
         ELSE IF IsInputFasta(row)
              THEN LET table_row == TableRow(row, cols) IN
                   IF Raised(table_row) THEN table_row
                   ELSE IF ~HasCol(row, "qc_status") THEN Raise("KeyError")
                   ELSE IF QcPass(row)
                        THEN FastaSummaryLoop(rows, cols, i + 1,
                                 Append(pass, table_row.returned), fail)
                        ELSE FastaSummaryLoop(rows, cols, i + 1,
                                 pass, Append(fail, table_row.returned))
              ELSE FastaSummaryLoop(rows, cols, i + 1, pass, fail)

make_fasta_summary_data(md, cfg) ==
    FastaSummaryLoop(md.rows, cfg.fasta_table_content, 1, <<>>, <<>>)

----------------------------------------------------------------------------
(* int(100*(count/total)), report.py 69.  Python 3's / is binary64         *)
(* division and 100*q a binary64 product, both rounded to nearest even;    *)
(* int() truncates.  With 100*count = k*total + r0:  when r0 # 0 the       *)
(* exact value is at least 1/total away from the next integer and the      *)
(* result is k.  When r0 = 0 the quotient q = m * 2^-s (m the 53-bit       *)
(* significand, m*total = count*2^s + eps) is off by eps, the exact        *)
(* product 100*m is k*2^s + D with D = 100*eps/total, and it rounds back   *)
(* to k*2^s only if |D| is at most half the spacing of the doubles just    *)
(* below k*2^s; otherwise the product is just below k and int() gives      *)
(* k - 1.  Only remainders modulo total are needed, so all numbers stay    *)
(* small.                                                                  *)

RECURSIVE Pow2(_)
Pow2(n) == IF n = 0 THEN 1 ELSE 2 * Pow2(n - 1)

RECURSIVE Pow2Mod(_, _)
Pow2Mod(n, t) == IF n = 0 THEN 1 % t ELSE (2 * Pow2Mod(n - 1, t)) % t

RECURSIVE BitLength(_)
BitLength(k) == IF k = 0 THEN 0 ELSE 1 + BitLength(k \div 2)

IsPow2(k) == k = Pow2(BitLength(k) - 1)

\* floor(log2(c/t)) for c, t > 0: the binary exponent of the quotient
RECURSIVE Log2Up(_, _)
Log2Up(c, t) == IF 2 * t > c THEN 0 ELSE 1 + Log2Up(c, 2 * t)

RECURSIVE Log2Down(_, _)
Log2Down(c, t) == IF c >= t THEN 0 ELSE Log2Down(2 * c, t) - 1

FloorLog2(c, t) == IF c >= t THEN Log2Up(c, t) ELSE Log2Down(c, t)

FloatPcent(count, tot) ==
    LET k == (100 * count) \div tot
        r0 == (100 * count) % tot
        e == FloorLog2(count, tot)
        s == 52 - e
        rem == ((count % tot) * Pow2Mod(s, tot)) % tot
        eps == IF 2 * rem < tot THEN 0 - rem ELSE tot - rem
        D == (100 * eps) \div tot
        x == BitLength(k) - 1 - e - (IF IsPow2(k) THEN 1 ELSE 0)
    IN IF count = 0 THEN 0
       ELSE IF r0 # 0 THEN k
       ELSE IF D < 0 /\ (x < 0 \/ 2 * (0 - D) > Pow2(x)) THEN k - 1
       ELSE k

----------------------------------------------------------------------------
(* collections.Counter: the items <<label, count>> in insertion order *)

CounterHas(counter, label) == \E i \in 1..Len(counter) : counter[i][1] = label

\* counter[label] += 1
CounterInc(counter, label) ==
    IF CounterHas(counter, label)
    THEN [i \in 1..Len(counter) |->
             IF counter[i][1] = label THEN <<label, counter[i][2] + 1>>
                                      ELSE counter[i]]
    ELSE Append(counter, <<label, 1>>)

RECURSIVE CounterSum(_)
CounterSum(counter) ==
    IF counter = <<>> THEN 0
    ELSE counter[1][2] + CounterSum(Tail(counter))

\* sorted(items, key=count, reverse=True) is stable: equal counts keep
\* their insertion order
InsertDesc(sorted, item) ==
    LET n == Cardinality({i \in 1..Len(sorted) : sorted[i][2] >= item[2]})
    IN SubSeq(sorted, 1, n) \o <<item>> \o SubSeq(sorted, n + 1, Len(sorted))

RECURSIVE SortDesc(_)
SortDesc(items) ==
    IF items = <<>> THEN <<>>
    ELSE InsertDesc(SortDesc(SubSeq(items, 1, Len(items) - 1)), items[Len(items)])

most_common(counter, n) ==
    LET sorted == SortDesc(counter)
    IN SubSeq(sorted, 1, IF Len(sorted) < n THEN Len(sorted) ELSE n)

(* get_top_10_str, report.py 64-74 *)

RECURSIVE Top10Loop(_, _, _, _, _)
Top10Loop(top, tot, i, remainder_pcent, acc) ==
    IF i > Len(top)
    THEN Return(acc \o "Other " \o ToString(remainder_pcent) \o "% <br>")
    ELSE IF tot = 0 THEN Raise("ZeroDivisionError")
    ELSE LET pcent == FloatPcent(top[i][2], tot) IN
         IF pcent >= 1
         THEN Top10Loop(top, tot, i + 1, remainder_pcent - pcent,
                        acc \o top[i][1] \o " " \o ToString(pcent) \o "% <br>")
         ELSE Top10Loop(top, tot, i + 1, remainder_pcent, acc)

get_top_10_str(tot, counter) ==
    Top10Loop(most_common(counter, 10), tot, 1, 100, "")

----------------------------------------------------------------------------
(* datetime.date: a date cell "YYYY-MM-DD" is modelled by its three        *)
(* numeric fields <<y, m, d>>; date.fromisoformat raises ValueError unless *)
(* they name a calendar day, and dates compare by (year, month, day).      *)

IsLeap(y) == (y % 4 = 0 /\ y % 100 # 0) \/ y % 400 = 0

DaysInMonth(y, m) ==
    IF m = 2 THEN (IF IsLeap(y) THEN 29 ELSE 28)
    ELSE IF m \in {4, 6, 9, 11} THEN 30 ELSE 31

fromisoformat(cell) ==
    IF /\ cell[1] \in 1..9999
       /\ cell[2] \in 1..12
       /\ cell[3] \in 1..DaysInMonth(cell[1], cell[2])
    THEN Return([date |-> cell])
    ELSE Raise("ValueError")

DateLess(a, b) ==
    \/ a.date[1] < b.date[1]
    \/ a.date[1] = b.date[1] /\ a.date[2] < b.date[2]
    \/ a.date[1] = b.date[1] /\ a.date[2] = b.date[2] /\ a.date[3] < b.date[3]

\* truth value of '' (false) and of a date object (true)
Truthy(v) == "date" \in DOMAIN v

(* check_earliest_latest_dates, report.py 51-62, on one catchment's dict *)

check_earliest_latest_dates_SameTest(d, cdict) ==
    LET earliest == IF Truthy(cdict["earliest_date"])
                    THEN (IF DateLess(d, cdict["earliest_date"])
                          THEN d ELSE cdict["earliest_date"])
                    ELSE d
        latest == IF Truthy(cdict["latest_date"])
                  THEN (IF DateLess(d, cdict["latest_date"])
                        THEN d ELSE cdict["latest_date"])
                  ELSE d
    IN DictSet(DictSet(cdict, "earliest_date", earliest), "latest_date", latest)

check_earliest_latest_dates(d, cdict) ==
    LET earliest == IF Truthy(cdict["earliest_date"])
                    THEN (IF DateLess(d, cdict["earliest_date"])
                          THEN d ELSE cdict["earliest_date"])
                    ELSE d
        latest == IF Truthy(cdict["latest_date"])
                  THEN (IF DateLess(cdict["latest_date"], d)
                        THEN d ELSE cdict["latest_date"])
                  ELSE d
    IN DictSet(DictSet(cdict, "earliest_date", earliest), "latest_date", latest)

----------------------------------------------------------------------------
(* make_catchment_summary_data, report.py 76-131.  A catchment's summary   *)
(* is a dict: total is an integer, earliest_date/latest_date are '' or a   *)
(* date, a tally is [counter |-> items] until it is formatted to a str.    *)

DateStep_Required(cdict, row, fieldnames, cfg) ==
    IF cfg.date_column \notin fieldnames THEN Raise("KeyError")
    ELSE LET d1 == IF "earliest_date" \in DOMAIN cdict THEN cdict
                   ELSE DictSet(cdict, "earliest_date", Str(""))
             d2 == IF "latest_date" \in DOMAIN d1 THEN d1
                   ELSE DictSet(d1, "latest_date", Str(""))
             d == fromisoformat(row[cfg.date_column])
         IN IF Raised(d) THEN d
            ELSE Return(check_earliest_latest_dates(d.returned, d2))

\* report.py 94-100
DateStep(cdict, row, fieldnames, cfg) ==
    IF cfg.date_column \notin fieldnames THEN Return(cdict)
    ELSE LET d1 == IF "earliest_date" \in DOMAIN cdict THEN cdict
                   ELSE DictSet(cdict, "earliest_date", Str(""))
             d2 == IF "latest_date" \in DOMAIN d1 THEN d1
                   ELSE DictSet(d1, "latest_date", Str(""))
             d == fromisoformat(row[cfg.date_column])
         IN IF Raised(d) THEN d
            ELSE Return(check_earliest_latest_dates(d.returned, d2))

LocationStep_SkipEmpty(cdict, row, fieldnames, cfg) ==
    IF cfg.location_column \notin fieldnames THEN cdict
    ELSE LET location_column == cfg.location_column
             d1 == IF location_column \in DOMAIN cdict THEN cdict
                   ELSE DictSet(cdict, location_column, [counter |-> <<>>])
         IN IF row[location_column] = "" THEN d1
            ELSE DictSet(d1, location_column,
                         [counter |-> CounterInc(d1[location_column].counter,
                                                 row[location_column])])

\* report.py 102-109
LocationStep(cdict, row, fieldnames, cfg) ==
    IF cfg.location_column \notin fieldnames THEN cdict
    ELSE LET location_column == cfg.location_column
             d1 == IF location_column \in DOMAIN cdict THEN cdict
                   ELSE DictSet(cdict, location_column, [counter |-> <<>>])
             label == IF row[location_column] = "" THEN "Unknown"
                      ELSE row[location_column]
         IN DictSet(d1, location_column,
                    [counter |-> CounterInc(d1[location_column].counter, label)])

\* report.py 111-115
LineageStep(cdict, row, fieldnames) ==
    IF "lineage" \notin fieldnames THEN cdict
    ELSE LET d1 == IF "lineage" \in DOMAIN cdict THEN cdict
                   ELSE DictSet(cdict, "lineage", [counter |-> <<>>])
         IN DictSet(d1, "lineage",
                    [counter |-> CounterInc(d1["lineage"].counter, row["lineage"])])

\* report.py 117-120: the value stored is a collections.defaultdict, which
\* has no append method
SNPsStep(cdict, row, fieldnames) ==
    IF "SNPs" \notin fieldnames THEN Return(cdict)
    ELSE LET d1 == IF "SNPs" \in DOMAIN cdict THEN cdict
                   ELSE DictSet(cdict, "SNPs", [defaultdict |-> <<>>])
         IN IF "list" \in DOMAIN d1["SNPs"]
            THEN Return(DictSet(d1, "SNPs",
                                List(Append(d1["SNPs"].list, row["SNPs"]))))
            ELSE Raise("AttributeError")

CatchmentRow_NoCount(csd, row, fieldnames, cfg) ==
    IF ~HasCol(row, "query_boolean") THEN Raise("KeyError")
    ELSE IF row["query_boolean"] # "False" THEN Return(csd)
    ELSE IF ~HasCol(row, "catchment") THEN Raise("KeyError")
    ELSE IF row["catchment"] \notin DOMAIN csd THEN Raise("KeyError")
    ELSE LET catchment == row["catchment"]
             r1 == DateStep(csd[catchment], row, fieldnames, cfg)
         IN IF Raised(r1) THEN r1
            ELSE LET d3 == LineageStep(LocationStep(r1.returned, row, fieldnames, cfg),
                                       row, fieldnames)
                     r4 == SNPsStep(d3, row, fieldnames)
                 IN IF Raised(r4) THEN r4
                    ELSE Return(DictSet(csd, catchment, r4.returned))

\* report.py 88-120: one row of the reader
CatchmentRow(csd, row, fieldnames, cfg) ==
    IF ~HasCol(row, "query_boolean") THEN Raise("KeyError")
    ELSE IF row["query_boolean"] # "False" THEN Return(csd)
    ELSE IF ~HasCol(row, "catchment") THEN Raise("KeyError")
    ELSE IF row["catchment"] \notin DOMAIN csd THEN Raise("KeyError")
    ELSE LET catchment == row["catchment"]
             d0 == DictSet(csd[catchment], "total", csd[catchment]["total"] + 1)
             r1 == DateStep(d0, row, fieldnames, cfg)
         IN IF Raised(r1) THEN r1
            ELSE LET d3 == LineageStep(LocationStep(r1.returned, row, fieldnames, cfg),
                                       row, fieldnames)
                     r4 == SNPsStep(d3, row, fieldnames)
                 IN IF Raised(r4) THEN r4
                    ELSE Return(DictSet(csd, catchment, r4.returned))

RECURSIVE CatchmentLoop(_, _, _, _, _)
CatchmentLoop(csd, rows, i, fieldnames, cfg) ==
    IF i > Len(rows) THEN Return(csd)
    ELSE LET r == CatchmentRow(csd, rows[i], fieldnames, cfg)
         IN IF Raised(r) THEN r
            ELSE CatchmentLoop(r.returned, rows, i + 1, fieldnames, cfg)

\* report.py 123-128: one catchment of the formatting loop
FormatCatchment(cdict, cfg) ==
    LET tot == cdict["total"]
        location_column == cfg.location_column
        r1 == IF location_column \in DOMAIN cdict
              THEN get_top_10_str(tot, cdict[location_column].counter)
              ELSE NotCalled
        d1 == IF Returned(r1)
              THEN DictSet(cdict, location_column, Str(r1.returned)) ELSE cdict
        r2 == IF "lineage" \in DOMAIN d1
              THEN get_top_10_str(tot, d1["lineage"].counter)
              ELSE NotCalled
        d2 == IF Returned(r2) THEN DictSet(d1, "lineage", Str(r2.returned)) ELSE d1
    IN IF Raised(r1) THEN r1
       ELSE IF Raised(r2) THEN r2
       ELSE Return(d2)

make_catchment_summary_data(md, catchment_list, cfg) ==
    LET csd0 == [c \in Range(catchment_list) |-> [total |-> 0]]
        looped == CatchmentLoop(csd0, md.rows, 1, md.fieldnames, cfg)
    IN IF Raised(looped) THEN looped
       ELSE LET csd == looped.returned
                formatted == [c \in DOMAIN csd |-> FormatCatchment(csd[c], cfg)]
            IN IF \E c \in DOMAIN csd : Raised(formatted[c])
               THEN Raise("ZeroDivisionError")
               ELSE Return([c \in DOMAIN csd |-> formatted[c].returned])

----------------------------------------------------------------------------
(* get_background_data, report.py 160-180.  A dict that is serialised is   *)
(* kept as its items <<key, value>> in insertion order; json.dumps writes  *)
(* them in that order.                                                     *)

\* dict[key] = value on the items of a dict: a new key goes last, a known
\* key keeps its place and takes the new value
ItemsSet_KeepFirst(items, k, v) ==
    IF \E i \in 1..Len(items) : items[i][1] = k
    THEN items
    ELSE Append(items, <<k, v>>)

ItemsSet(items, k, v) ==
    IF \E i \in 1..Len(items) : items[i][1] = k
    THEN [i \in 1..Len(items) |-> IF items[i][1] = k THEN <<k, v>> ELSE items[i]]
    ELSE Append(items, <<k, v>>)

Pad2(n) == IF n < 10 THEN "0" \o ToString(n) ELSE ToString(n)

\* the text of a cell: a date cell <<y, m, d>> reads "y-mm-dd"
CellText(row, col, cfg) ==
    IF col = cfg.date_column
    THEN ToString(row[col][1]) \o "-" \o Pad2(row[col][2]) \o "-" \o Pad2(row[col][3])
    ELSE row[col]

\* report.py 165-168
BackgroundColumns(fieldnames, cfg) ==
    SelectSeq(<<cfg.report_column, "lineage", cfg.location_column, cfg.date_column>>,
              LAMBDA i : i \in fieldnames)

\* report.py 170-172: data[i] = row[i] for i in background_columns
RECURSIVE RowData(_, _, _, _, _)
RowData(row, cols, i, cfg, data) ==
    IF i > Len(cols) THEN data
    ELSE RowData(row, cols, i + 1, cfg,
                 ItemsSet(data, cols[i], CellText(row, cols[i], cfg)))

\* report.py 169-178
RECURSIVE BackgroundLoop(_, _, _, _, _)
BackgroundLoop(rows, i, cols, cfg, bdata) ==
    IF i > Len(rows) THEN Return(bdata)
    ELSE LET row == rows[i]
             data == RowData(row, cols, 1, cfg, <<>>)
         IN IF ~HasCol(row, "query_boolean") THEN Raise("KeyError")
            ELSE IF row["query_boolean"] = "True"
                 THEN IF ~HasCol(row, cfg.report_column) THEN Raise("KeyError")
                      ELSE BackgroundLoop(rows, i + 1, cols, cfg,
                               ItemsSet(bdata, row[cfg.report_column],
                                        ItemsSet(data, "Query", "True")))
                 ELSE IF ~HasCol(row, cfg.background_column) THEN Raise("KeyError")
                      ELSE BackgroundLoop(rows, i + 1, cols, cfg,
                               ItemsSet(bdata, row[cfg.background_column],
                                        ItemsSet(data, "Query", "False")))

\* json.dumps of a str, of a dict of str and of a dict of such dicts
JsonStr(str) == "\"" \o str \o "\""

RECURSIVE JsonStrMembers(_, _)
JsonStrMembers(items, i) ==
    IF i > Len(items) THEN ""
    ELSE (IF i > 1 THEN ", " ELSE "")
         \o JsonStr(items[i][1]) \o ": " \o JsonStr(items[i][2])
         \o JsonStrMembers(items, i + 1)

JsonFlatDict(items) == "{" \o JsonStrMembers(items, 1) \o "}"

RECURSIVE JsonDictMembers(_, _)
JsonDictMembers(items, i) ==
    IF i > Len(items) THEN ""
    ELSE (IF i > 1 THEN ", " ELSE "")
         \o JsonStr(items[i][1]) \o ": " \o JsonFlatDict(items[i][2])
         \o JsonDictMembers(items, i + 1)

json_dumps(items) == "{" \o JsonDictMembers(items, 1) \o "}"

get_background_data(md, cfg) ==
    LET looped == BackgroundLoop(md.rows, 1, BackgroundColumns(md.fieldnames, cfg),
                                 cfg, <<>>)
    IN IF Raised(looped) THEN looped
       ELSE Return(json_dumps(looped.returned))

----------------------------------------------------------------------------
(* Artifact files.  artifacts maps the path <<kind, catchment>> of every   *)
(* file that exists to its lines (each without its newline).               *)

FileExists(files, path) == path \in DOMAIN files

RECURSIVE JoinLines(_, _)
JoinLines(lines, i) ==
    IF i > Len(lines) THEN "" ELSE lines[i] \o "\n" \o JoinLines(lines, i + 1)

\* text.rstrip("\n") of the rejoined lines: the trailing empty lines go
\* and the last line loses its newline
RECURSIVE RstripJoined(_)
RstripJoined(lines) ==
    IF lines = <<>> THEN ""
    ELSE IF lines[Len(lines)] = "" THEN RstripJoined(SubSeq(lines, 1, Len(lines) - 1))
    ELSE JoinLines(SubSeq(lines, 1, Len(lines) - 1), 1) \o lines[Len(lines)]

(* The running define_report_content: doc is data_for_report, opened the   *)
(* files opened so far, summarised whether make_catchment_summary_data was *)
(* called, exc the exception raised ("" while none).                       *)

\* data_for_report[catchment][key] = value
DocSet(st, catchment, key, value) ==
    [st EXCEPT !.doc = DictSet(st.doc, catchment,
                               DictSet(st.doc[catchment], key, value))]

\* for catchment in catchments: data_for_report[catchment][key] = ""
RECURSIVE BlankAll(_, _, _, _)
BlankAll(st, catchment_list, i, key) ==
    IF i > Len(catchment_list) THEN st
    ELSE BlankAll(DocSet(st, catchment_list[i], key, Str("")), catchment_list, i + 1, key)

\* get_newick, report.py 151-158
RECURSIVE get_newick(_, _, _, _)
get_newick(st, catchment_list, i, files) ==
    IF i > Len(catchment_list) THEN st
    ELSE LET path == <<"tree", catchment_list[i]>>
             st1 == [st EXCEPT !.opened = @ \cup {path}]
         IN IF ~FileExists(files, path)
            THEN [st1 EXCEPT !.exc = "FileNotFoundError"]
            ELSE get_newick(DocSet(st1, catchment_list[i], "newick",
                                   Str(RstripJoined(files[path]))),
                            catchment_list, i + 1, files)

\* get_snipit, report.py 142-149
RECURSIVE get_snipit(_, _, _, _)
get_snipit(st, catchment_list, i, files) ==
    IF i > Len(catchment_list) THEN st
    ELSE LET path == <<"snipit", catchment_list[i]>>
             st1 == [st EXCEPT !.opened = @ \cup {path}]
         IN IF ~FileExists(files, path)
            THEN [st1 EXCEPT !.exc = "FileNotFoundError"]
            ELSE get_snipit(DocSet(st1, catchment_list[i], "snipit_svg",
                                   Str(JoinLines(files[path], 1))),
                            catchment_list, i + 1, files)

\* report.py 226-227 with get_timeline, report.py 133-140: the timeline
\* JSON that the timeline step produced for the catchment is loaded
RECURSIVE TimelineLoop(_, _, _, _)
TimelineLoop(st, catchment_list, i, files) ==
    IF i > Len(catchment_list) THEN st
    ELSE LET path == <<"timeline", catchment_list[i]>>
             st1 == [st EXCEPT !.opened = @ \cup {path}]
         IN IF ~FileExists(files, path)
            THEN [st1 EXCEPT !.exc = "FileNotFoundError"]
            ELSE TimelineLoop(DocSet(st1, catchment_list[i], "timeline_data",
                                     [json |-> files[path]]),
                              catchment_list, i + 1, files)

\* report.py 185-190
InitDoc(catchment_list) ==
    [doc |-> [c \in Range(catchment_list) |->
                 LET catchment_id == CHOOSE i \in 1..Len(catchment_list) :
                                         catchment_list[i] = c
                 IN [catchmentID |-> Str("catchment_" \o ToString(catchment_id))]],
     opened |-> {},
     summarised |-> FALSE,
     exc |-> ""]

\* report.py 192-197
QuerySection(st, md, cfg) ==
    IF st.exc # "" THEN st
    ELSE IF "1" \in cfg.report_content
    THEN LET q == make_query_summary_data(md, cfg)
             f == make_fasta_summary_data(md, cfg)
         IN IF Raised(q) THEN [st EXCEPT !.exc = q.raised]
            ELSE IF Raised(f) THEN [st EXCEPT !.exc = f.raised]
            ELSE [st EXCEPT !.doc =
                     DictSet(DictSet(DictSet(st.doc,
                         "query_summary_data", List(q.returned)),
                         "fasta_summary_pass", List(f.returned.pass)),
                         "fasta_summary_fail", List(f.returned.fail))]
    ELSE [st EXCEPT !.doc =
             DictSet(DictSet(DictSet(st.doc,
                 "query_summary_data", Str("")),
                 "fasta_summary_pass", Str("")),
                 "fasta_summary_fail", Str(""))]

\* report.py 207-208
RECURSIVE StoreSummaries(_, _, _, _)
StoreSummaries(st, catchment_list, i, csd) ==
    IF i > Len(catchment_list) THEN st
    ELSE StoreSummaries(DocSet(st, catchment_list[i], "catchment_summary_data",
                               [dict |-> csd[catchment_list[i]]]),
                        catchment_list, i + 1, csd)

\* report.py 199-211
CatchmentSection(st, md, catchment_list, cfg) ==
    IF st.exc # "" THEN st
    ELSE IF "2" \in cfg.report_content
    THEN LET r == make_catchment_summary_data(md, catchment_list, cfg)
             st1 == [st EXCEPT !.summarised = TRUE]
         IN IF Raised(r) THEN [st1 EXCEPT !.exc = r.raised]
            ELSE StoreSummaries(st1, catchment_list, 1, r.returned)
    ELSE BlankAll(st, catchment_list, 1, "catchment_summary_data")

\* report.py 213-217
NewickSection_AlwaysRead(st, catchment_list, cfg, files) ==
    IF st.exc # "" THEN st
    ELSE get_newick(st, catchment_list, 1, files)

NewickSection(st, catchment_list, cfg, files) ==
    IF st.exc # "" THEN st
    ELSE IF "3" \in cfg.report_content THEN get_newick(st, catchment_list, 1, files)
    ELSE BlankAll(st, catchment_list, 1, "newick")

\* report.py 219-223
SnipitSection(st, catchment_list, cfg, files) ==
    IF st.exc # "" THEN st
    ELSE IF "4" \in cfg.report_content THEN get_snipit(st, catchment_list, 1, files)
    ELSE BlankAll(st, catchment_list, 1, "snipit_svg")

\* report.py 225-230
TimelineSection(st, catchment_list, cfg, files) ==
    IF st.exc # "" THEN st
    ELSE IF "5" \in cfg.report_content THEN TimelineLoop(st, catchment_list, 1, files)
    ELSE BlankAll(st, catchment_list, 1, "timeline_data")

\* report.py 232-240: no loop here; `catchment` is still the variable of
\* the loops above, the last catchment, and is unbound when there is none
MapSection(st, catchment_list, key) ==
    IF st.exc # "" THEN st
    ELSE IF catchment_list = <<>> THEN [st EXCEPT !.exc = "UnboundLocalError"]
    ELSE DocSet(st, catchment_list[Len(catchment_list)], key, Str(""))

(* define_report_content, report.py 183-242: the sections in the order of *)
(* the code; a section is passed over once an earlier one has raised       *)
define_report_content(md, catchment_list, cfg, files) ==
    MapSection(
      MapSection(
        TimelineSection(
          SnipitSection(
            NewickSection(
              CatchmentSection(
                QuerySection(InitDoc(catchment_list), md, cfg),
                md, catchment_list, cfg),
              catchment_list, cfg, files),
            catchment_list, cfg, files),
          catchment_list, cfg, files),
        catchment_list, "map_background"),
      catchment_list, "map_queries")

----------------------------------------------------------------------------
(* Metadata files: a header and up to a bounded number of rows over it *)

SeqsUpTo(S, n) == UNION {[1..k -> S] : k \in 0..n}

\* the rows over a header, values[col] being the cells a column can hold
RECURSIVE RowsOf(_, _)
RowsOf(header, values) ==
    IF header = {} THEN {<<>>}
    ELSE LET col == CHOOSE c \in header : TRUE
         IN {DictSet(r, col, v) : r \in RowsOf(header \ {col}, values),
                                  v \in values[col]}

\* metadata is a file with one of the headers and at most n rows
MetadataOver(headers, values, n) ==
    \E h \in headers, k \in 0..n :
        \E rs \in [1..k -> RowsOf(h, values)] :
            metadata = [fieldnames |-> h, rows |-> rs]

\* the report part of the state when no report is being made
ReportIdle ==
    /\ artifacts = <<>>
    /\ data_for_report = NotCalled
    /\ buf = "unset"
    /\ trace_printed = FALSE
    /\ output_file = NotCalled
    /\ exception = ""

NoMetadata == [fieldnames |-> {}, rows |-> <<>>]

BaseConfig ==
    [table_content |-> <<"name">>,
     fasta_table_content |-> <<"name", "qc_status">>,
     date_column |-> "sample_date",
     location_column |-> "adm2",
     report_column |-> "name",
     background_column |-> "name",
     report_content |-> {"1", "2", "3", "4", "5", "6", "7"},
     catchment_count |-> 2]

\* report.py 248
CatchmentList(n) == [i \in 1..n |-> "catchment_" \o ToString(i)]

----------------------------------------------------------------------------
(* Query and fasta summary extraction *)

MaxSummaryRows == 3

SummaryColumns == {"query_boolean", "source", "qc_status", "name"}

SummaryValues ==
    [query_boolean |-> {"True", "False", "true"},
     source |-> {"input_fasta", "background"},
     qc_status |-> {"Pass", "Fail"},
     name |-> {"s1", "s2"}]

SummaryConfigs ==
    {BaseConfig,
     [BaseConfig EXCEPT !.table_content = <<"name", "source">>,
                        !.fasta_table_content = <<"name">>]}

InitSummary ==
    /\ MetadataOver(SUBSET SummaryColumns, SummaryValues, MaxSummaryRows)
    /\ config \in SummaryConfigs
    /\ pc = "summary"
    /\ query_summary_data = NotCalled
    /\ fasta_summary = NotCalled
    /\ total = 0
    /\ counter_dict = <<>>
    /\ summary = NotCalled
    /\ catchments = <<>>
    /\ catchment_summary_data = NotCalled
    /\ background_data = NotCalled
    /\ ReportIdle

CallMakeQuerySummaryData ==
    /\ pc \in {"summary", "required"}
    /\ query_summary_data = NotCalled
    /\ query_summary_data' = make_query_summary_data(metadata, config)
    /\ UNCHANGED <<metadata, config, pc, fasta_summary, total, counter_dict,
                   summary, catchments, catchment_summary_data,
                   background_data, reportVars>>

CallMakeFastaSummaryData ==
    /\ pc \in {"summary", "required"}
    /\ fasta_summary = NotCalled
    /\ fasta_summary' = make_fasta_summary_data(metadata, config)
    /\ UNCHANGED <<metadata, config, pc, query_summary_data, total, counter_dict,
                   summary, catchments, catchment_summary_data,
                   background_data, reportVars>>

NextSummary == CallMakeQuerySummaryData \/ CallMakeFastaSummaryData

SpecSummary == InitSummary /\ [][NextSummary]_vars

\* the rows sel, in their order, each cut down to the columns cols
Projected(sel, cols) ==
    [k \in 1..Len(sel) |-> [c \in Range(cols) |-> sel[k][c]]]

\* the rows of the file with query_boolean "True", in file order
QueryRows == SelectSeq(metadata.rows, LAMBDA r : r["query_boolean"] = "True")

\* the rows of the file with source "input_fasta", in file order
FastaRows == SelectSeq(metadata.rows, LAMBDA r : r["source"] = "input_fasta")

PassRows == SelectSeq(FastaRows, LAMBDA r : r["qc_status"] = "Pass")

FailRows == SelectSeq(FastaRows, LAMBDA r : r["qc_status"] # "Pass")

\* C1: whenever make_query_summary_data returns, its result has exactly one
\* entry per row whose query_boolean is the string "True", in the original
\* row order, and each entry has exactly the columns of table_content with
\* that row's values.
C1_QuerySummaryExact ==
    Returned(query_summary_data) =>
        LET out == query_summary_data.returned
            want == Projected(QueryRows, config.table_content)
        IN /\ Len(out) = Len(want)
           /\ \A k \in 1..Len(out) :
                 /\ DOMAIN out[k] = Range(config.table_content)
                 /\ out[k] = want[k]

\* two query rows with different values were extracted, after a row that
\* is no query
C1_Witness ==
    /\ Returned(query_summary_data)
    /\ Len(metadata.rows) = 3
    /\ metadata.rows[1]["query_boolean"] = "true"
    /\ Len(query_summary_data.returned) = 2
    /\ query_summary_data.returned[1] # query_summary_data.returned[2]

\* C2: whenever make_fasta_summary_data returns, fasta_summary_pass holds
\* exactly the rows with source "input_fasta" and qc_status "Pass",
\* fasta_summary_fail exactly the other rows with source "input_fasta",
\* both in the original row order and cut down to fasta_table_content; no
\* row with another source is in either list.
C2_FastaPartition ==
    Returned(fasta_summary) =>
        LET out == fasta_summary.returned
            pass == Projected(PassRows, config.fasta_table_content)
            fail == Projected(FailRows, config.fasta_table_content)
        IN /\ out.pass = pass
           /\ out.fail = fail
           /\ Len(out.pass) + Len(out.fail) = Len(FastaRows)

\* a file with a passing and a failing fasta row and a background row
C2_Witness ==
    /\ Returned(fasta_summary)
    /\ Len(metadata.rows) = 3
    /\ Len(fasta_summary.returned.pass) = 1
    /\ Len(fasta_summary.returned.fail) = 1

----------------------------------------------------------------------------
(* Totals and counters the top-10 formatter is run on: up to MaxBig        *)
(* categories with any count up to MaxCount, then up to MaxTail            *)
(* categories seen once; the counts are positive and sum to at most total. *)

MaxBig == 2
MaxCount == 29
MaxTail == 10
MaxTotal == 50

Labels == <<"A", "B", "C", "D", "E", "F", "G", "H", "I", "J", "K", "L", "M", "N">>

Top10Counters ==
    {[i \in 1..(Len(big) + nTail) |->
         <<Labels[i], IF i <= Len(big) THEN big[i] ELSE 1>>] :
       big \in SeqsUpTo(1..MaxCount, MaxBig), nTail \in 0..MaxTail}

InitTop10 ==
    /\ counter_dict \in Top10Counters
    /\ total \in 1..MaxTotal
    /\ CounterSum(counter_dict) <= total
    /\ summary = NotCalled
    /\ pc = "top10"
    /\ metadata = NoMetadata
    /\ config = BaseConfig
    /\ query_summary_data = NotCalled
    /\ fasta_summary = NotCalled
    /\ catchments = <<>>
    /\ catchment_summary_data = NotCalled
    /\ background_data = NotCalled
    /\ ReportIdle

CallGetTop10Str ==
    /\ pc = "top10"
    /\ summary = NotCalled
    /\ summary' = get_top_10_str(total, counter_dict)
    /\ UNCHANGED <<metadata, config, pc, query_summary_data, fasta_summary,
                   total, counter_dict, catchments, catchment_summary_data,
                   background_data, reportVars>>

NextTop10 == CallGetTop10Str

SpecTop10 == InitTop10 /\ [][NextTop10]_vars

\* the text the top-10 entries from position i on contribute when every
\* percentage is floor(100*count/total)
RECURSIVE FloorEntries(_, _, _)
FloorEntries(top, tot, i) ==
    IF i > Len(top) THEN ""
    ELSE LET p == (100 * top[i][2]) \div tot
         IN (IF p >= 1 THEN top[i][1] \o " " \o ToString(p) \o "% <br>" ELSE "")
            \o FloorEntries(top, tot, i + 1)

RECURSIVE FloorSum(_, _, _)
FloorSum(top, tot, i) ==
    IF i > Len(top) THEN 0
    ELSE (100 * top[i][2]) \div tot + FloorSum(top, tot, i + 1)

\* C3: for counts that are positive and sum to at most total, get_top_10_str
\* returns the up-to-10 most frequent categories in descending count order,
\* each as "<label> <p>% <br>" with p = floor(100*count/total), entries with
\* p < 1 left out, followed by "Other <r>% <br>" with r = 100 minus the sum
\* of the p (the left-out entries have p = 0, so debiting them changes
\* nothing), 0 <= r <= 100, and the output is "Other 100% <br>" when every
\* entry is below 1%.
C3_Top10FloorPercent ==
    summary # NotCalled =>
        LET top == most_common(counter_dict, 10)
            r == 100 - FloorSum(top, total, 1)
        IN /\ Returned(summary)
           /\ r \in 0..100
           /\ summary.returned =
                  FloorEntries(top, total, 1) \o "Other " \o ToString(r) \o "% <br>"
           /\ (\A i \in 1..Len(top) : 100 * top[i][2] < total)
                  => summary.returned = "Other 100% <br>"

----------------------------------------------------------------------------
(* Catchment summaries *)

MaxCatchmentRows == 3

CatchmentValues ==
    [query_boolean |-> {"True", "False"},
     catchment |-> {"catchment_1", "catchment_2"},
     sample_date |-> {<<2020, 3, 1>>, <<2020, 1, 5>>, <<2020, 6, 10>>, <<2020, 2, 30>>},
     adm2 |-> {"", "Lothian"},
     lineage |-> {"B.1", "B.1.1"},
     SNPs |-> {"C241T"}]

CatchmentHeaders ==
    {{"query_boolean", "catchment"} \cup opt :
        opt \in {{}, {"sample_date"}, {"adm2"}, {"lineage"}, {"SNPs"},
                 {"adm2", "lineage"}, {"sample_date", "SNPs"}}}

InitCatchment ==
    /\ MetadataOver(CatchmentHeaders, CatchmentValues, MaxCatchmentRows)
    /\ config \in {[BaseConfig EXCEPT !.catchment_count = n] : n \in 1..2}
    /\ catchments = CatchmentList(config.catchment_count)
    /\ catchment_summary_data = NotCalled
    /\ background_data = NotCalled
    /\ ReportIdle
    /\ pc = "catchment"
    /\ query_summary_data = NotCalled
    /\ fasta_summary = NotCalled
    /\ total = 0
    /\ counter_dict = <<>>
    /\ summary = NotCalled

CallMakeCatchmentSummaryData ==
    /\ pc \in {"catchment", "required", "optional"}
    /\ catchment_summary_data = NotCalled
    /\ background_data = NotCalled
    /\ ReportIdle
    /\ catchment_summary_data' =
           make_catchment_summary_data(metadata, catchments, config)
    /\ UNCHANGED <<metadata, config, pc, query_summary_data, fasta_summary,
                   total, counter_dict, summary, catchments, background_data,
                   reportVars>>

NextCatchment == CallMakeCatchmentSummaryData

SpecCatchment == InitCatchment /\ [][NextCatchment]_vars

\* the rows of the file that are no query and belong to the catchment
NonQueryRows(catchment) ==
    SelectSeq(metadata.rows,
              LAMBDA r : r["query_boolean"] = "False" /\ r["catchment"] = catchment)

\* a number that orders the date cells as the calendar does
DayNumber(cell) == cell[1] * 372 + cell[2] * 31 + cell[3]

\* C4: when the configured date column is in the header and
\* make_catchment_summary_data returns, then for every catchment with at
\* least one non-query row earliest_date is the minimum and latest_date the
\* maximum of the dates of that catchment's non-query rows, whatever the
\* order of the rows; query rows and other catchments do not affect them.
C4_EarliestLatest ==
    (Returned(catchment_summary_data) /\ config.date_column \in metadata.fieldnames) =>
        \A c \in Range(catchments) :
            LET days == {DayNumber(r[config.date_column]) : r \in Range(NonQueryRows(c))}
                cdict == catchment_summary_data.returned[c]
            IN days # {} =>
                  /\ DayNumber(cdict["earliest_date"].date) \in days
                  /\ DayNumber(cdict["latest_date"].date) \in days
                  /\ \A n \in days : /\ DayNumber(cdict["earliest_date"].date) <= n
                                     /\ n <= DayNumber(cdict["latest_date"].date)

\* one catchment fed 2020-03-01, 2020-01-05, 2020-06-10 in that order
C4_Witness ==
    /\ Returned(catchment_summary_data)
    /\ config.date_column \in metadata.fieldnames
    /\ Len(NonQueryRows("catchment_1")) = 3
    /\ metadata.rows[1][config.date_column] = <<2020, 3, 1>>
    /\ metadata.rows[2][config.date_column] = <<2020, 1, 5>>
    /\ metadata.rows[3][config.date_column] = <<2020, 6, 10>>
    /\ catchment_summary_data.returned["catchment_1"]["earliest_date"].date = <<2020, 1, 5>>
    /\ catchment_summary_data.returned["catchment_1"]["latest_date"].date = <<2020, 6, 10>>

\* C8: if the header has a SNPs column, make_catchment_summary_data does
\* not fail on it, and when it returns, the SNPs field of every catchment
\* with non-query rows is the list of their raw SNPs values in row order.
C8_SNPsCollected ==
    (catchment_summary_data # NotCalled /\ "SNPs" \in metadata.fieldnames) =>
        /\ ~(Raised(catchment_summary_data)
             /\ catchment_summary_data.raised = "AttributeError")
        /\ Returned(catchment_summary_data) =>
              \A c \in Range(catchments) :
                  LET nq == NonQueryRows(c)
                  IN nq # <<>> =>
                        catchment_summary_data.returned[c]["SNPs"] =
                            List([k \in 1..Len(nq) |-> nq[k]["SNPs"]])

----------------------------------------------------------------------------
(* Background data *)

MaxBackgroundRows == 3

BackgroundValues ==
    [query_boolean |-> {"True", "False"},
     name |-> {"s1", "s2"},
     sequence_name |-> {"s1", "s2"},
     lineage |-> {"B.1", "B.1.1"},
     sample_date |-> {<<2020, 3, 1>>, <<2020, 11, 25>>}]

BackgroundHeaders ==
    {{"query_boolean", "name"}, {"query_boolean", "sequence_name"},
     {"query_boolean", "name", "sequence_name"},
     {"query_boolean", "name", "sequence_name", "lineage"},
     {"query_boolean", "name", "sequence_name", "sample_date"}}

InitBackground ==
    /\ MetadataOver(BackgroundHeaders, BackgroundValues, MaxBackgroundRows)
    /\ config = [BaseConfig EXCEPT !.background_column = "sequence_name"]
    /\ pc = "background"
    /\ background_data = NotCalled
    /\ ReportIdle
    /\ query_summary_data = NotCalled
    /\ fasta_summary = NotCalled
    /\ total = 0
    /\ counter_dict = <<>>
    /\ summary = NotCalled
    /\ catchments = <<>>
    /\ catchment_summary_data = NotCalled

CallGetBackgroundData ==
    /\ pc \in {"background", "optional"}
    /\ background_data = NotCalled
    /\ ReportIdle
    /\ background_data' = get_background_data(metadata, config)
    /\ UNCHANGED <<metadata, config, pc, query_summary_data, fasta_summary,
                   total, counter_dict, summary, catchments,
                   catchment_summary_data, reportVars>>

NextBackground == CallGetBackgroundData

SpecBackground == InitBackground /\ [][NextBackground]_vars

\* the key a row is stored under
BackgroundKey(row) ==
    IF row["query_boolean"] = "True" THEN row[config.report_column]
    ELSE row[config.background_column]

\* the entry a row makes: the background columns in the header, then Query
BackgroundEntry(row) ==
    LET cols == BackgroundColumns(metadata.fieldnames, config)
    IN [i \in 1..Len(cols) |-> <<cols[i], CellText(row, cols[i], config)>>]
       \o <<<<"Query", IF row["query_boolean"] = "True" THEN "True" ELSE "False">>>>

\* C7: whenever get_background_data returns, the JSON has exactly one entry
\* per distinct key of the rows (report column for a row with query_boolean
\* "True", background column otherwise), the entry of a key holds the
\* values of the LAST row with that key, and its Query flag is "True" iff
\* that row's query_boolean is "True".
C7_LastRowWins ==
    Returned(background_data) =>
        LET rows == metadata.rows
            first == SelectSeq([i \in 1..Len(rows) |-> i],
                         LAMBDA i : \A j \in 1..(i - 1) :
                                       BackgroundKey(rows[j]) # BackgroundKey(rows[i]))
            Last(i) == CHOOSE j \in i..Len(rows) :
                          /\ BackgroundKey(rows[j]) = BackgroundKey(rows[i])
                          /\ \A l \in (j + 1)..Len(rows) :
                                BackgroundKey(rows[l]) # BackgroundKey(rows[i])
            want == [n \in 1..Len(first) |->
                        <<BackgroundKey(rows[first[n]]),
                          BackgroundEntry(rows[Last(first[n])])>>]
        IN background_data.returned = json_dumps(want)

\* a background row and a later query row share the key, a third row has
\* another key: two entries, the shared one is the query row's
C7_Witness ==
    /\ Returned(background_data)
    /\ metadata.fieldnames = {"query_boolean", "name", "sequence_name", "lineage"}
    /\ Len(metadata.rows) = 3
    /\ metadata.rows[1]["query_boolean"] = "False"
    /\ metadata.rows[2]["query_boolean"] = "True"
    /\ BackgroundKey(metadata.rows[1]) = BackgroundKey(metadata.rows[2])
    /\ BackgroundKey(metadata.rows[3]) # BackgroundKey(metadata.rows[1])
    /\ metadata.rows[1]["lineage"] # metadata.rows[2]["lineage"]

----------------------------------------------------------------------------
(* make_report, report.py 245-282, one action per step.  The template      *)
(* engine is external: constructing the template (255-258) and rendering   *)
(* it (273) may each raise, and so may opening the output file (281).      *)

MaxReportRows == 1
MaxCatchments == 2

Flags == {"1", "2", "3", "4", "5", "6", "7"}

\* the selectors tried: both branches of the tests on "6" and on "7"
\* (report.py 232-240) are the same statement, so the two go together
ReportContents == {rc \in SUBSET Flags : ("6" \in rc) = ("7" \in rc)}

ReportValues ==
    [query_boolean |-> {"True", "False"},
     source |-> {"input_fasta"},
     qc_status |-> {"Pass", "Fail"},
     name |-> {"s1"},
     catchment |-> {"catchment_1", "catchment_2"},
     lineage |-> {"B.1"},
     SNPs |-> {"C241T"}]

ReportColumns == {"query_boolean", "source", "qc_status", "name", "catchment", "lineage"}

ReportHeaders == {ReportColumns, ReportColumns \ {"source"}, ReportColumns \cup {"SNPs"}}

ArtifactLines(kind) ==
    CASE kind = "tree" -> <<"(s1:1,s2:1);", "">>
      [] kind = "snipit" -> <<"<svg>", "</svg>">>
      [] kind = "timeline" -> <<"[]">>

\* every artifact of every catchment, but for the missing ones
ArtifactsWithout(missing) ==
    [path \in ({"tree", "snipit", "timeline"} \X Range(CatchmentList(MaxCatchments)))
              \ missing |-> ArtifactLines(path[1])]

InitReport ==
    /\ MetadataOver(ReportHeaders, ReportValues, MaxReportRows)
    /\ \E rc \in ReportContents, n \in 0..MaxCatchments :
          config = [BaseConfig EXCEPT !.report_content = rc, !.catchment_count = n]
    /\ \E missing \in {{}, {<<"tree", "catchment_1">>}, {<<"snipit", "catchment_1">>},
                       {<<"timeline", "catchment_1">>}} :
          artifacts = ArtifactsWithout(missing)
    /\ pc = "make_report"
    /\ catchments = <<>>
    /\ data_for_report = NotCalled
    /\ background_data = NotCalled
    /\ buf = "unset"
    /\ trace_printed = FALSE
    /\ output_file = NotCalled
    /\ exception = ""
    /\ query_summary_data = NotCalled
    /\ fasta_summary = NotCalled
    /\ total = 0
    /\ counter_dict = <<>>
    /\ summary = NotCalled
    /\ catchment_summary_data = NotCalled

unitVars == <<metadata, config, query_summary_data, fasta_summary, total,
              counter_dict, summary, catchment_summary_data, artifacts>>

\* report.py 248
ListCatchments ==
    /\ pc = "make_report"
    /\ catchments' = CatchmentList(config.catchment_count)
    /\ pc' = "define_report_content"
    /\ UNCHANGED <<unitVars, data_for_report, background_data, buf, trace_printed,
                   output_file, exception>>

\* report.py 250
DefineReportContent ==
    /\ pc = "define_report_content"
    /\ data_for_report' = define_report_content(metadata, catchments, config, artifacts)
    /\ exception' = data_for_report'.exc
    /\ pc' = IF data_for_report'.exc = "" THEN "get_background_data" ELSE "raised"
    /\ UNCHANGED <<unitVars, catchments, background_data, buf, trace_printed,
                   output_file>>

\* report.py 251
GetBackgroundData ==
    /\ pc = "get_background_data"
    /\ background_data' = get_background_data(metadata, config)
    /\ exception' = IF Raised(background_data') THEN background_data'.raised ELSE ""
    /\ pc' = IF Raised(background_data') THEN "raised" ELSE "load_template"
    /\ UNCHANGED <<unitVars, catchments, data_for_report, buf, trace_printed,
                   output_file>>

\* report.py 255-270: the template is found and compiled, the buffer made
LoadTemplate ==
    /\ pc = "load_template"
    /\ buf' = "empty"
    /\ pc' = "render"
    /\ UNCHANGED <<unitVars, catchments, data_for_report, background_data,
                   trace_printed, output_file, exception>>

\* report.py 255-258: the template file is missing or does not compile
LoadTemplateFails ==
    /\ pc = "load_template"
    /\ exception' = "TemplateError"
    /\ pc' = "raised"
    /\ UNCHANGED <<unitVars, catchments, data_for_report, background_data, buf,
                   trace_printed, output_file>>

\* report.py 272-273
RenderTemplate ==
    /\ pc = "render"
    /\ buf' = "complete"
    /\ pc' = "write"
    /\ UNCHANGED <<unitVars, catchments, data_for_report, background_data,
                   trace_printed, output_file, exception>>

RenderFails_Propagates ==
    /\ pc = "render"
    /\ buf' \in {"empty", "partial"}
    /\ exception' = "RenderError"
    /\ pc' = "raised"
    /\ UNCHANGED <<unitVars, catchments, data_for_report, background_data,
                   trace_printed, output_file>>

\* report.py 273-279: the renderer raises after writing nothing or a part;
\* the bare except prints the traceback and goes on
RenderFails ==
    /\ pc = "render"
    /\ buf' \in {"empty", "partial"}
    /\ trace_printed' = TRUE
    /\ pc' = "write"
    /\ UNCHANGED <<unitVars, catchments, data_for_report, background_data,
                   output_file, exception>>

\* report.py 281-282
WriteReport ==
    /\ pc = "write"
    /\ output_file' = [written |-> buf]
    /\ pc' = "done"
    /\ UNCHANGED <<unitVars, catchments, data_for_report, background_data, buf,
                   trace_printed, exception>>

\* report.py 281: the output file cannot be opened
WriteReportFails ==
    /\ pc = "write"
    /\ exception' = "OSError"
    /\ pc' = "raised"
    /\ UNCHANGED <<unitVars, catchments, data_for_report, background_data, buf,
                   trace_printed, output_file>>

NextReport ==
    \/ ListCatchments
    \/ DefineReportContent
    \/ GetBackgroundData
    \/ LoadTemplate
    \/ LoadTemplateFails
    \/ RenderTemplate
    \/ RenderFails
    \/ WriteReport
    \/ WriteReportFails

SpecReport == InitReport /\ [][NextReport]_vars

DefineReturned == "exc" \in DOMAIN data_for_report /\ data_for_report.exc = ""

CatchmentKeys ==
    [catchment_summary_data |-> "2", newick |-> "3", snipit_svg |-> "4",
     timeline_data |-> "5", map_background |-> "6", map_queries |-> "7"]

\* C5: in every document define_report_content returns, all gated keys
\* exist: query_summary_data, fasta_summary_pass and fasta_summary_fail at
\* the top level and, for EVERY catchment of the list,
\* catchment_summary_data, newick, snipit_svg, timeline_data,
\* map_background and map_queries; a key whose flag is not in the selector
\* holds the empty string.
C5_EveryGatedKeyExists ==
    DefineReturned =>
        LET doc == data_for_report.doc IN
        /\ \A key \in {"query_summary_data", "fasta_summary_pass", "fasta_summary_fail"} :
              /\ key \in DOMAIN doc
              /\ "1" \notin config.report_content => doc[key] = Str("")
        /\ \A c \in Range(catchments) :
              \A key \in DOMAIN CatchmentKeys :
                  /\ key \in DOMAIN doc[c]
                  /\ CatchmentKeys[key] \notin config.report_content
                        => doc[c][key] = Str("")

\* the three top-level fields hold the summaries of the metadata
SummariesPopulated(doc) ==
    /\ doc["query_summary_data"] = List(Projected(QueryRows, config.table_content))
    /\ doc["fasta_summary_pass"] = List(Projected(PassRows, config.fasta_table_content))
    /\ doc["fasta_summary_fail"] = List(Projected(FailRows, config.fasta_table_content))

\* C6 as stated: with selector "1" the three summaries are populated and
\* every field of every catchment entry is the empty string; no artifact
\* file is read and no catchment summary is computed.
C6_AllOtherFieldsEmpty ==
    (DefineReturned /\ config.report_content = {"1"}) =>
        LET doc == data_for_report.doc IN
        /\ SummariesPopulated(doc)
        /\ \A c \in Range(catchments) :
              \A key \in DOMAIN doc[c] : doc[c][key] = Str("")
        /\ data_for_report.opened = {}
        /\ ~data_for_report.summarised

\* C6 amended: with selector "1", no artifact file is read and no catchment
\* summary is computed, and when define_report_content returns, the three
\* summaries are populated from the metadata and every field of every
\* catchment entry except catchmentID is the empty string; catchmentID is
\* "catchment_<ordinal>".
C6_OtherFieldsEmptyButID ==
    ("doc" \in DOMAIN data_for_report /\ config.report_content = {"1"}) =>
        /\ data_for_report.opened = {}
        /\ ~data_for_report.summarised
        /\ DefineReturned =>
              LET doc == data_for_report.doc IN
              /\ SummariesPopulated(doc)
              /\ \A i \in 1..Len(catchments) :
                    /\ doc[catchments[i]]["catchmentID"] = Str("catchment_" \o ToString(i))
                    /\ \A key \in DOMAIN doc[catchments[i]] \ {"catchmentID"} :
                          doc[catchments[i]][key] = Str("")

\* selector "1", two catchments, a query row: returned with the query in
\* the summary
C6_Witness ==
    /\ DefineReturned
    /\ config.report_content = {"1"}
    /\ Len(catchments) = 2
    /\ Len(metadata.rows) = 1
    /\ data_for_report.doc["query_summary_data"] = List(<<[name |-> "s1"]>>)
    /\ data_for_report.doc["catchment_2"]["newick"] = Str("")

AggregationDone == DefineReturned /\ Returned(background_data)

TemplateLoaded == buf # "unset"

Written == "written" \in DOMAIN output_file

Finished == pc \in {"done", "raised"}

\* C10 as stated: the output file is written exactly when
\* define_report_content and get_background_data both completed, whether
\* or not rendering succeeded (a run that fails to open the output file
\* set aside).
C10_WrittenIffAggregated ==
    (Finished /\ exception # "OSError") => (Written <=> AggregationDone)

\* C10 amended: a failure of render_context is the only failure caught: the
\* trace is printed and the write still follows with whatever the buffer
\* holds.  The write of the output file is reached exactly when
\* define_report_content, get_background_data and the construction of the
\* template (255-258) all completed, whether or not rendering succeeded;
\* if one of these three raises, the exception propagates and no output
\* file is written.
C10_WrittenIffLoaded ==
    /\ Written => /\ AggregationDone /\ TemplateLoaded
                  /\ pc = "done"
                  /\ output_file.written = buf
    /\ pc = "done" => Written
    /\ pc = "raised" => ~Written /\ exception # ""
    /\ Finished =>
          ((Written \/ exception = "OSError") <=> (AggregationDone /\ TemplateLoaded))
    /\ trace_printed => \/ pc \in {"write", "done"}
                        \/ pc = "raised" /\ exception = "OSError"

\* rendering failed half way, the trace was printed and the part was written
C10_Witness ==
    /\ pc = "done"
    /\ trace_printed
    /\ output_file = [written |-> "partial"]
    /\ AggregationDone

----------------------------------------------------------------------------
(* Files that lack required or configured columns *)

MaxRequiredRows == 2

RequiredColumns == {"query_boolean", "source", "qc_status", "catchment", "name"}

RequiredValues ==
    [query_boolean |-> {"True", "False"},
     source |-> {"input_fasta", "background"},
     qc_status |-> {"Pass", "Fail"},
     catchment |-> {"catchment_1"},
     name |-> {"s1"}]

InitRequired ==
    /\ MetadataOver(SUBSET RequiredColumns, RequiredValues, MaxRequiredRows)
    /\ config \in SummaryConfigs
    /\ catchments = CatchmentList(config.catchment_count)
    /\ pc = "required"
    /\ query_summary_data = NotCalled
    /\ fasta_summary = NotCalled
    /\ catchment_summary_data = NotCalled
    /\ background_data = NotCalled
    /\ ReportIdle
    /\ total = 0
    /\ counter_dict = <<>>
    /\ summary = NotCalled

NextRequired ==
    \/ CallMakeQuerySummaryData
    \/ CallMakeFastaSummaryData
    \/ CallMakeCatchmentSummaryData

SpecRequired == InitRequired /\ [][NextRequired]_vars

Missing(cols) == \E c \in cols : c \notin metadata.fieldnames

KeyErrorRaised(outcome) == Raised(outcome) /\ outcome.raised = "KeyError"

\* some row of the file has the value in the column (the column being there)
SomeRow(col, value) ==
    /\ col \in metadata.fieldnames
    /\ \E i \in 1..Len(metadata.rows) : metadata.rows[i][col] = value

\* C9 as stated: a missing required or configured column always makes the
\* aggregation fail with a lookup error, also when no row selects it.
C9_MissingColumnAlwaysRaises ==
    /\ (query_summary_data # NotCalled
        /\ Missing({"query_boolean"} \cup Range(config.table_content)))
           => KeyErrorRaised(query_summary_data)
    /\ (fasta_summary # NotCalled
        /\ Missing({"source", "qc_status"} \cup Range(config.fasta_table_content)))
           => KeyErrorRaised(fasta_summary)
    /\ (catchment_summary_data # NotCalled /\ Missing({"query_boolean", "catchment"}))
           => KeyErrorRaised(catchment_summary_data)

\* C9 amended: a missing required or configured column makes the
\* aggregation fail with a lookup error exactly when a row is reached that
\* reads it, and is never defaulted: query_boolean and source are read on
\* every row, the table_content columns on every query row, the
\* fasta_table_content columns and qc_status on every input_fasta row,
\* catchment on every non-query row.  With no such row (no query row, no
\* input_fasta row, no non-query row, no data rows at all) the function
\* returns normally and the missing column goes unnoticed.
C9_MissingColumnRaisesWhenRead ==
    /\ query_summary_data # NotCalled =>
          (KeyErrorRaised(query_summary_data) <=>
              /\ metadata.rows # <<>>
              /\ \/ Missing({"query_boolean"})
                 \/ SomeRow("query_boolean", "True") /\ Missing(Range(config.table_content)))
    /\ query_summary_data # NotCalled =>
          Returned(query_summary_data) \/ KeyErrorRaised(query_summary_data)
    /\ fasta_summary # NotCalled =>
          (KeyErrorRaised(fasta_summary) <=>
              /\ metadata.rows # <<>>
              /\ \/ Missing({"source"})
                 \/ /\ SomeRow("source", "input_fasta")
                    /\ Missing({"qc_status"} \cup Range(config.fasta_table_content)))
    /\ fasta_summary # NotCalled =>
          Returned(fasta_summary) \/ KeyErrorRaised(fasta_summary)
    /\ catchment_summary_data # NotCalled =>
          (KeyErrorRaised(catchment_summary_data) <=>
              /\ metadata.rows # <<>>
              /\ \/ Missing({"query_boolean"})
                 \/ SomeRow("query_boolean", "False") /\ Missing({"catchment"}))
    /\ catchment_summary_data # NotCalled =>
          Returned(catchment_summary_data) \/ KeyErrorRaised(catchment_summary_data)

\* a file with rows but no query row and no name column: the query summary
\* returned, while the fasta summary failed on the missing column
C9_Witness ==
    /\ Returned(query_summary_data)
    /\ metadata.rows # <<>>
    /\ "name" \notin metadata.fieldnames
    /\ KeyErrorRaised(fasta_summary)
    /\ "source" \in metadata.fieldnames

----------------------------------------------------------------------------
(* make_catchment_summary_data step by step: the loop over the rows        *)
(* (report.py 88-120), then one call of get_top_10_str after another in    *)
(* the formatting loop (122-128), then the return (131).  While the        *)
(* function runs catchment_summary_data is [building |-> the dict]; total, *)
(* counter_dict and summary are the arguments and the outcome of the last  *)
(* call of get_top_10_str.                                                 *)

MaxAggregateRows == 3

AggregateValues ==
    [query_boolean |-> {"True", "False", "false"},
     catchment |-> {"catchment_1", "catchment_2"},
     sample_date |-> {<<2020, 3, 1>>, <<2020, 2, 30>>},
     adm2 |-> {"", "Lothian"},
     lineage |-> {"B.1"},
     SNPs |-> {"C241T"}]

AggregateHeaders ==
    {{"query_boolean", "catchment"} \cup opt :
        opt \in {{}, {"sample_date"}, {"adm2"}, {"lineage"}, {"SNPs"},
                 {"adm2", "lineage"}}}

InitAggregate ==
    /\ MetadataOver(AggregateHeaders, AggregateValues, MaxAggregateRows)
    /\ config \in {[BaseConfig EXCEPT !.catchment_count = n] : n \in 1..2}
    /\ catchments = CatchmentList(config.catchment_count)
    /\ catchment_summary_data = NotCalled
    /\ background_data = NotCalled
    /\ ReportIdle
    /\ pc = "rows"
    /\ query_summary_data = NotCalled
    /\ fasta_summary = NotCalled
    /\ total = 0
    /\ counter_dict = <<>>
    /\ summary = NotCalled

Building(o) == "building" \in DOMAIN o

\* report.py 124-127: the keys of a catchment that are formatted, in order
TallyKeys(cfg) == <<cfg.location_column, "lineage">>

\* the value under the key is still the collections.Counter
IsTally(cdict, key) == key \in DOMAIN cdict /\ "counter" \in DOMAIN cdict[key]

\* report.py 122-128: the calls of get_top_10_str still to be made, each
\* <<place of the catchment in the dict, place of the key in TallyKeys>>
PendingCalls(csd, catchment_list, cfg) ==
    {p \in (1..Len(catchment_list)) \X (1..Len(TallyKeys(cfg))) :
        IsTally(csd[catchment_list[p[1]]], TallyKeys(cfg)[p[2]])}

\* the dict is walked in insertion order, the location tally before lineage
NextCall(csd, catchment_list, cfg) ==
    CHOOSE p \in PendingCalls(csd, catchment_list, cfg) :
        \A q \in PendingCalls(csd, catchment_list, cfg) :
            p[1] < q[1] \/ (p[1] = q[1] /\ p[2] <= q[2])

\* report.py 78-120
AggregateRows ==
    /\ pc = "rows"
    /\ LET csd0 == [c \in Range(catchments) |-> [total |-> 0]]
           looped == CatchmentLoop(csd0, metadata.rows, 1, metadata.fieldnames, config)
       IN IF Raised(looped)
          THEN catchment_summary_data' = looped /\ pc' = "done"
          ELSE catchment_summary_data' = [building |-> looped.returned] /\ pc' = "format"
    /\ UNCHANGED <<metadata, config, query_summary_data, fasta_summary, total,
                   counter_dict, summary, catchments, background_data, reportVars>>

\* report.py 123-128: one call of get_top_10_str and the store of its result
FormatTally ==
    /\ pc = "format"
    /\ PendingCalls(catchment_summary_data.building, catchments, config) # {}
    /\ LET csd == catchment_summary_data.building
           p == NextCall(csd, catchments, config)
           catchment == catchments[p[1]]
           key == TallyKeys(config)[p[2]]
       IN /\ total' = csd[catchment]["total"]
          /\ counter_dict' = csd[catchment][key].counter
          /\ summary' = get_top_10_str(total', counter_dict')
          /\ IF Raised(summary')
             THEN catchment_summary_data' = summary' /\ pc' = "done"
             ELSE /\ catchment_summary_data' =
                        [building |-> DictSet(csd, catchment,
                            DictSet(csd[catchment], key, Str(summary'.returned)))]
                  /\ pc' = "format"
    /\ UNCHANGED <<metadata, config, query_summary_data, fasta_summary,
                   catchments, background_data, reportVars>>

\* report.py 131
ReturnSummary ==
    /\ pc = "format"
    /\ PendingCalls(catchment_summary_data.building, catchments, config) = {}
    /\ catchment_summary_data' = Return(catchment_summary_data.building)
    /\ pc' = "done"
    /\ UNCHANGED <<metadata, config, query_summary_data, fasta_summary, total,
                   counter_dict, summary, catchments, background_data, reportVars>>

NextAggregate ==
    \/ AggregateRows
    \/ FormatTally
    \/ ReturnSummary

SpecAggregate == InitAggregate /\ [][NextAggregate]_vars

\* the steps end with the outcome of the function taken as a whole
StepsAgree ==
    pc = "done" =>
        catchment_summary_data = make_catchment_summary_data(metadata, catchments, config)

\* counter[label], 0 for a label never counted
CounterGet(counter, label) ==
    IF CounterHas(counter, label)
    THEN counter[CHOOSE i \in 1..Len(counter) : counter[i][1] = label][2]
    ELSE 0

\* the file without the rows whose query_boolean is not "False"
NonQueryFile ==
    [fieldnames |-> metadata.fieldnames,
     rows |-> SelectSeq(metadata.rows, LAMBDA r : r["query_boolean"] = "False")]

\* C11: for every catchment of the list the total is the number of rows
\* with query_boolean "False" and that catchment; the rows with any other
\* query_boolean change nothing in the result; and when the loop over the
\* rows has ended, before the tallies are formatted, the location tally and
\* the lineage tally of a catchment each sum to the catchment's total, the
\* empty locations being counted under "Unknown".
C11_TotalsAndTallies ==
    /\ Returned(catchment_summary_data) =>
          /\ \A c \in Range(catchments) :
                catchment_summary_data.returned[c]["total"] = Len(NonQueryRows(c))
          /\ catchment_summary_data =
                make_catchment_summary_data(NonQueryFile, catchments, config)
    /\ (Building(catchment_summary_data) /\ summary = NotCalled) =>
          \A c \in Range(catchments) :
              LET cdict == catchment_summary_data.building[c]
                  nq == NonQueryRows(c)
              IN /\ cdict["total"] = Len(nq)
                 /\ \A k \in Range(TallyKeys(config)) :
                       IsTally(cdict, k) => CounterSum(cdict[k].counter) = cdict["total"]
                 /\ IsTally(cdict, config.location_column) =>
                       CounterGet(cdict[config.location_column].counter, "Unknown")
                           = Len(SelectSeq(nq, LAMBDA r : r[config.location_column] = ""))

\* catchment_1 has a query row and two rows that are none, one of them with
\* an empty location: total 2, "Unknown" 1, before the tally is formatted
C11_Witness ==
    /\ Building(catchment_summary_data)
    /\ summary = NotCalled
    /\ Len(metadata.rows) = 3
    /\ \E i \in 1..3 : /\ metadata.rows[i]["query_boolean"] = "True"
                       /\ metadata.rows[i]["catchment"] = "catchment_1"
    /\ catchment_summary_data.building["catchment_1"]["total"] = 2
    /\ IsTally(catchment_summary_data.building["catchment_1"], "adm2")
    /\ IsTally(catchment_summary_data.building["catchment_1"], "lineage")
    /\ CounterGet(catchment_summary_data.building["catchment_1"]["adm2"].counter,
                  "Unknown") = 1

\* C13: make_catchment_summary_data never divides by zero: get_top_10_str
\* is called only for a catchment that has a non-query row, every call is
\* made with a total of at least 1 and returns, and a catchment with no
\* non-query row ends with a summary that holds total = 0 and nothing else.
C13_NeverDividesByZero ==
    /\ ~(Raised(catchment_summary_data)
         /\ catchment_summary_data.raised = "ZeroDivisionError")
    /\ Building(catchment_summary_data) =>
          \A p \in PendingCalls(catchment_summary_data.building, catchments, config) :
              /\ NonQueryRows(catchments[p[1]]) # <<>>
              /\ catchment_summary_data.building[catchments[p[1]]]["total"] >= 1
    /\ summary # NotCalled =>
          /\ total >= 1
          /\ counter_dict # <<>>
          /\ Returned(summary)
    /\ Returned(catchment_summary_data) =>
          \A c \in Range(catchments) :
              NonQueryRows(c) = <<>> =>
                  catchment_summary_data.returned[c] = [total |-> 0]

\* catchment_1 had its two tallies formatted on a total of 1, catchment_2
\* has no non-query row and ends with total = 0 alone
C13_Witness ==
    /\ Returned(catchment_summary_data)
    /\ {"adm2", "lineage"} \subseteq metadata.fieldnames
    /\ Returned(summary)
    /\ total = 1
    /\ catchment_summary_data.returned["catchment_1"]["total"] = 1
    /\ Len(catchments) = 2
    /\ catchment_summary_data.returned["catchment_2"] = [total |-> 0]
    /\ \E i \in 1..Len(metadata.rows) :
          /\ metadata.rows[i]["query_boolean"] = "True"
          /\ metadata.rows[i]["catchment"] = "catchment_2"

----------------------------------------------------------------------------
(* Files with every required column and any of the optional ones: the      *)
(* catchment summaries are made, then the background data, as make_report  *)
(* does (report.py 250-251), or either alone.                              *)

MaxOptionalRows == 2

OptionalColumns == {"sample_date", "adm2", "lineage", "SNPs"}

OptionalValues ==
    [query_boolean |-> {"True", "False"},
     catchment |-> {"catchment_1", "catchment_2"},
     name |-> {"s1", "s2"},
     sample_date |-> {<<2020, 3, 1>>, <<2020, 2, 30>>},
     adm2 |-> {"Lothian"},
     lineage |-> {"B.1"},
     SNPs |-> {"C241T"}]

OptionalHeaders ==
    {{"query_boolean", "catchment", "name"} \cup opt : opt \in SUBSET OptionalColumns}

InitOptional ==
    /\ MetadataOver(OptionalHeaders, OptionalValues, MaxOptionalRows)
    /\ config \in {[BaseConfig EXCEPT !.catchment_count = n] : n \in 1..2}
    /\ catchments = CatchmentList(config.catchment_count)
    /\ catchment_summary_data = NotCalled
    /\ background_data = NotCalled
    /\ ReportIdle
    /\ pc = "optional"
    /\ query_summary_data = NotCalled
    /\ fasta_summary = NotCalled
    /\ total = 0
    /\ counter_dict = <<>>
    /\ summary = NotCalled

NextOptional ==
    \/ CallMakeCatchmentSummaryData
    \/ CallGetBackgroundData

SpecOptional == InitOptional /\ [][NextOptional]_vars

\* the header lacks the column
Absent(col) == col \notin metadata.fieldnames

\* some non-query row names a catchment that is not in the list
StrayCatchment ==
    \E i \in 1..Len(metadata.rows) :
        /\ metadata.rows[i]["query_boolean"] = "False"
        /\ metadata.rows[i]["catchment"] \notin Range(catchments)

\* the members of a background entry: of the report column, lineage, the
\* location column and the date column those the header has, then Query
PresentMembers(row) ==
    LET Member(col) == IF Absent(col) THEN <<>>
                       ELSE <<<<col, CellText(row, col, config)>>>>
    IN Member(config.report_column) \o Member("lineage")
       \o Member(config.location_column) \o Member(config.date_column)
       \o <<<<"Query", IF row["query_boolean"] = "True" THEN "True" ELSE "False">>>>

\* the first rows of their names, each with the last row of its name
PresentEntries ==
    LET rows == metadata.rows
        name(i) == rows[i][config.report_column]
        first == SelectSeq([i \in 1..Len(rows) |-> i],
                           LAMBDA i : \A j \in 1..(i - 1) : name(j) # name(i))
        Last(i) == CHOOSE j \in i..Len(rows) :
                      /\ name(j) = name(i)
                      /\ \A l \in (j + 1)..Len(rows) : name(l) # name(i)
    IN [n \in 1..Len(first) |-> <<name(first[n]), PresentMembers(rows[Last(first[n])])>>]

\* C12: an optional column (the configured date column, the configured
\* location column, lineage, SNPs) that the header lacks is a feature that
\* is absent, and the header alone decides it.  make_catchment_summary_data
\* fails only on what is there (a catchment that is not in the list, a date
\* column with a cell that is no date, a SNPs column) and returns when none
\* of that is; every summary it returns has total and none of the keys of a
\* column the header lacks.  get_background_data returns, and its entries
\* hold exactly the columns the header has.
C12_AbsentColumnIsAbsentFeature ==
    /\ Raised(catchment_summary_data) =>
          \/ catchment_summary_data.raised = "KeyError" /\ StrayCatchment
          \/ catchment_summary_data.raised = "ValueError" /\ ~Absent(config.date_column)
          \/ catchment_summary_data.raised = "AttributeError" /\ ~Absent("SNPs")
    /\ (catchment_summary_data # NotCalled /\ ~StrayCatchment
        /\ Absent(config.date_column) /\ Absent("SNPs")) =>
          Returned(catchment_summary_data)
    /\ Returned(catchment_summary_data) =>
          \A c \in Range(catchments) :
              LET keys == DOMAIN catchment_summary_data.returned[c]
              IN /\ "total" \in keys
                 /\ Absent(config.date_column) =>
                       keys \cap {"earliest_date", "latest_date"} = {}
                 /\ Absent(config.location_column) => config.location_column \notin keys
                 /\ Absent("lineage") => "lineage" \notin keys
                 /\ Absent("SNPs") => "SNPs" \notin keys
    /\ background_data # NotCalled =>
          /\ Returned(background_data)
          /\ background_data.returned = json_dumps(PresentEntries)

\* a file with a row that is no query and none of the optional columns: the
\* summary is total alone, the background entry the name and Query
C12_Witness ==
    /\ metadata.fieldnames = {"query_boolean", "catchment", "name"}
    /\ Len(metadata.rows) = 2
    /\ Returned(catchment_summary_data)
    /\ catchment_summary_data.returned["catchment_1"] = [total |-> 2]
    /\ Returned(background_data)
    /\ background_data.returned =
           "{\"s1\": {\"name\": \"s1\", \"Query\": \"False\"}}"

====
